---- MODULE Spec2Model ----
(***************************************************************************)
(* Verification model of the Spec-Driven-Development workflow application: *)
(*   - the prompt substitution function  (server/prompts.ts)               *)
(*   - the workflow / document / version store (server/storage.ts)         *)
(*   - the HTTP handlers that execute agents and relay the provider stream *)
(*     (server/routes.ts)                                                  *)
(*                                                                         *)
(* Strings are tuples of atoms.  An atom is either a single character      *)
(* ("{", "}", ".", "1", ...) or a whole word of the source text that the   *)
(* model never needs to look inside ("coding_standards", "TEXT", ...).     *)
(***************************************************************************)
EXTENDS Integers, Sequences, FiniteSets, TLC

VARIABLES
    workflows,          \* workflows table: id -> row
    documents,          \* documents table: id -> row
    documentVersions,   \* document_versions table: set of rows
    nextWorkflowId,     \* serial of workflows.id
    nextDocumentId,     \* serial of documents.id
    nextVersionId,      \* serial of document_versions.id
    constitution,       \* settings row with key "constitution"
    calls,              \* in-flight storage.updateDocument calls (between awaits)
    req,                \* in-flight HTTP handlers (between awaits)
    render,             \* one evaluation of getPromptForAgent
    client              \* the browser reading one execution's event stream

vars == <<workflows, documents, documentVersions, nextWorkflowId,
          nextDocumentId, nextVersionId, constitution, calls, req, render,
          client>>

storeVars == <<workflows, documents, documentVersions, nextWorkflowId,
               nextDocumentId, nextVersionId, constitution>>

(***************************************************************************)
(* Bounds                                                                  *)
(***************************************************************************)
MaxVars == 2          \* longest variable list handed to getPromptForAgent
MaxCalls == 2         \* storage.updateDocument calls in one behaviour
MaxDocuments == 2     \* documents rows ever inserted
MaxWorkflows == 2     \* workflows rows ever inserted
MaxRequests == 2      \* streaming / multi-step HTTP requests in one behaviour
MaxChunks == 2        \* chunks one provider stream delivers

(***************************************************************************)
(* Strings                                                                 *)
(***************************************************************************)
\* the atoms that stand for exactly one character
SingleChars == {"{", "}", "[", "]", ".", "(", "$", "&", "1", "2", "3", "4", "a", "b"}

RECURSIVE Concat(_)
\* concatenation of a sequence of strings
Concat(ss) == IF ss = <<>> THEN <<>> ELSE Head(ss) \o Concat(Tail(ss))

\* s contains t as a contiguous substring
Contains(s, t) ==
    \E i \in 1..(Len(s) - Len(t) + 1) : SubSeq(s, i, i + Len(t) - 1) = t

(***************************************************************************)
(* shared/schema.ts                                                        *)
(***************************************************************************)
agentTypes == {"decision_author", "analyst", "architect", "scrum_master", "developer"}

\* the text `{{name}}` of a template, name given as a string
Ph(name) == <<"{", "{">> \o name \o <<"}", "}">>

TEXT == <<"TEXT">>

(***************************************************************************)
(* server/prompts.ts                                                       *)
(***************************************************************************)
\* The five templates with every placeholder occurrence of the source, in
\* source order; the prose between placeholders is abridged to TEXT.
PROMPTS ==
    [decision_author |->
        Concat(<<TEXT, Ph(<<"target_audience">>), TEXT, Ph(<<"organization_type">>),
                 TEXT, Ph(<<"regulatory_level">>), TEXT, Ph(<<"ai_maturity_level">>),
                 TEXT, Ph(<<"tool_", "1">>), TEXT, Ph(<<"tool_", "2">>),
                 TEXT, Ph(<<"tool_", "3">>), TEXT, Ph(<<"tool_", "4">>),
                 TEXT, Ph(<<"project_type">>), TEXT, Ph(<<"system_complexity">>),
                 TEXT, Ph(<<"governance_priority">>), TEXT,
                 Ph(<<"existing_codebase_state">>), TEXT>>),
     analyst |->
        Concat(<<TEXT, Ph(<<"input_sources">>), TEXT, Ph(<<"organization_type">>),
                 TEXT, Ph(<<"product_domain">>), TEXT, Ph(<<"target_users">>),
                 TEXT, Ph(<<"regulatory_level">>), TEXT,
                 Ph(<<"delivery_constraints">>), TEXT>>),
     architect |->
        Concat(<<TEXT, Ph(<<"constitution_file">>), TEXT, Ph(<<"constitution_file">>),
                 TEXT, Ph(<<"constitution_file">>), TEXT,
                 Ph(<<"organizational_constraints">>), TEXT, Ph(<<"system_type">>),
                 TEXT, Ph(<<"deployment_environment">>), TEXT,
                 Ph(<<"scalability_requirements">>), TEXT,
                 Ph(<<"availability_targets">>), TEXT, Ph(<<"regulatory_level">>),
                 TEXT>>),
     scrum_master |->
        Concat(<<TEXT, Ph(<<"constitution_file">>), TEXT, Ph(<<"sprint_duration">>),
                 TEXT, Ph(<<"team_size">>), TEXT, Ph(<<"velocity_baseline">>), TEXT>>),
     developer |->
        Concat(<<TEXT, Ph(<<"constitution_file">>), TEXT, Ph(<<"coding_standards">>),
                 TEXT, Ph(<<"coding_standards">>), TEXT,
                 Ph(<<"testing_requirements">>), TEXT, Ph(<<"tech_stack">>), TEXT>>)]

\* the names x such that `{{x}}` occurs in a template
PlaceholderNames ==
    { <<"target_audience">>, <<"organization_type">>, <<"regulatory_level">>,
      <<"ai_maturity_level">>, <<"tool_", "1">>, <<"tool_", "2">>, <<"tool_", "3">>,
      <<"tool_", "4">>, <<"project_type">>, <<"system_complexity">>,
      <<"governance_priority">>, <<"existing_codebase_state">>, <<"input_sources">>,
      <<"product_domain">>, <<"target_users">>, <<"delivery_constraints">>,
      <<"constitution_file">>, <<"organizational_constraints">>, <<"system_type">>,
      <<"deployment_environment">>, <<"scalability_requirements">>,
      <<"availability_targets">>, <<"sprint_duration">>, <<"team_size">>,
      <<"velocity_baseline">>, <<"coding_standards">>, <<"testing_requirements">>,
      <<"tech_stack">> }

\* new RegExp(source, "g") throws a SyntaxError: an unterminated group
RegExpThrows(source) == \E i \in 1..Len(source) : source[i] = "("

\* one pattern atom against one subject atom: "." is the wildcard for one
\* character, every other atom of the modelled patterns is a literal
AtomMatches(p, c) == IF p = "." THEN c \in SingleChars ELSE p = c

\* the pattern matches the subject at position i
MatchAt(pattern, s, i) ==
    /\ i + Len(pattern) - 1 <= Len(s)
    /\ \A j \in 1..Len(pattern) : AtomMatches(pattern[j], s[i + j - 1])

RECURSIVE GetSubstitution(_, _)
\* the replacement text of String.prototype.replace: `$$` is a dollar sign
\* and `$&` is the matched text
GetSubstitution(replacement, matched) ==
    IF replacement = <<>> THEN <<>>
    ELSE IF Len(replacement) >= 2 /\ replacement[1] = "$" /\ replacement[2] = "$"
         THEN <<"$">> \o GetSubstitution(SubSeq(replacement, 3, Len(replacement)), matched)
    ELSE IF Len(replacement) >= 2 /\ replacement[1] = "$" /\ replacement[2] = "&"
         THEN matched \o GetSubstitution(SubSeq(replacement, 3, Len(replacement)), matched)
    ELSE <<Head(replacement)>> \o GetSubstitution(Tail(replacement), matched)

RECURSIVE ReplaceFrom(_, _, _, _)
\* s.replace(new RegExp(pattern, "g"), replacement), scanning from position i:
\* matches are found left to right, do not overlap, and inserted text is
\* not scanned again
ReplaceFrom(s, pattern, replacement, i) ==
    IF i > Len(s) THEN <<>>
    ELSE IF MatchAt(pattern, s, i)
         THEN GetSubstitution(replacement, SubSeq(s, i, i + Len(pattern) - 1))
                \o ReplaceFrom(s, pattern, replacement, i + Len(pattern))
         ELSE <<s[i]>> \o ReplaceFrom(s, pattern, replacement, i + 1)

ReplaceAll(s, pattern, replacement) == ReplaceFrom(s, pattern, replacement, 1)

\* `[${variable.key} not specified]`
Sentinel(key) == <<"[">> \o key \o <<" not specified]">>

\* variable.value || `[${variable.key} not specified]`
ValueOrSentinel(variable) ==
    IF variable.value # <<>> THEN variable.value ELSE Sentinel(variable.key)

RECURSIVE SubstituteVariables(_, _)
\* the for-loop over the variables: [threw, value]
SubstituteVariables(prompt, variables) ==
    IF variables = <<>> THEN [threw |-> FALSE, value |-> prompt]
    ELSE LET variable == Head(variables)
             placeholder == Ph(variable.key)
         IN  IF RegExpThrows(placeholder)
             THEN [threw |-> TRUE, value |-> <<>>]
             ELSE SubstituteVariables(
                      ReplaceAll(prompt, placeholder, ValueOrSentinel(variable)),
                      Tail(variables))

ConstitutionPhrase == <<"the project constitution">>
ConstitutionLabel == <<"\n\n---\nProject Constitution:\n">>

\* mutant: the constitution is appended without substituting the reserved
\* placeholder
getPromptForAgent_KeepsReserved(agentType, variables, constitutionText) ==
    LET substituted == SubstituteVariables(PROMPTS[agentType], variables)
    IN  IF substituted.threw THEN substituted
        ELSE IF constitutionText # <<>>
             THEN [threw |-> FALSE,
                   value |-> substituted.value \o ConstitutionLabel \o constitutionText]
             ELSE substituted

getPromptForAgent(agentType, variables, constitutionText) ==
    LET substituted == SubstituteVariables(PROMPTS[agentType], variables)
    IN  IF substituted.threw THEN substituted
        ELSE IF constitutionText # <<>>
             THEN [threw |-> FALSE,
                   value |-> ReplaceAll(substituted.value, Ph(<<"constitution_file">>),
                                        ConstitutionPhrase)
                             \o ConstitutionLabel \o constitutionText]
             ELSE substituted

(***************************************************************************)
(* Inputs of getPromptForAgent                                             *)
(***************************************************************************)
Keys == { <<"regulatory_level">>, <<"coding_standards">>, <<"constitution_file">>,
          <<"tool_", "1">>, <<"tool_", ".">>, <<"unknown_key">>, <<"(">> }
Values == { <<>>, <<"a">>, <<"$", "&">>, Ph(<<"coding_standards">>) }
Constitutions == { <<>>, <<"CONSTITUTION">> }

ContextVariable == [key : Keys, value : Values]

VariableLists == UNION { [1..n -> ContextVariable] : n \in 0..MaxVars }

RenderIdle == [pc |-> "idle", agentType |-> "analyst", variables |-> <<>>,
               constitution |-> <<>>, threw |-> FALSE, out |-> <<>>]

\* a caller is about to evaluate getPromptForAgent on some input
RenderInit ==
    render \in [pc : {"call"}, agentType : agentTypes, variables : VariableLists,
                constitution : Constitutions, threw : {FALSE}, out : {<<>>}]

\* the call returns or throws
Render ==
    /\ render.pc = "call"
    /\ LET result == getPromptForAgent(render.agentType, render.variables,
                                       render.constitution)
       IN  render' = [render EXCEPT !.pc = IF result.threw THEN "threw" ELSE "returned",
                                    !.threw = result.threw,
                                    !.out = result.value]
    /\ UNCHANGED <<storeVars, calls, req, client>>

(***************************************************************************)
(* server/storage.ts : DatabaseStorage over the tables of shared/schema.ts *)
(***************************************************************************)
NULL == 0     \* SQL NULL / JavaScript null in an integer column

Contents == { <<"a">>, <<"b">> }     \* document texts a caller supplies

\* the bodies a caller passes as `updates`: new content, optionally with a
\* new owning workflow
UpdateBodies ==
    [content : Contents] \cup [content : Contents, workflowId : 1..MaxWorkflows]

Calls == 1..MaxCalls

CallIdle == [pc |-> "idle", id |-> NULL, updates |-> [content |-> <<>>],
             current |-> [content |-> <<>>, version |-> NULL],
             savedId |-> NULL, result |-> "none"]

\* rows of document_versions owned by a document
VersionsOf(documentId) == { v \in documentVersions : v.documentId = documentId }

\* documents.workflow_id REFERENCES workflows(id): the value is admissible
WorkflowKeyValid(workflowId) == workflowId = NULL \/ workflowId \in DOMAIN workflows

\* getDocumentVersions(documentId): the rows WHERE document_id = documentId
\* ORDER BY version DESC; rows with equal version come in any order, so the
\* operator is the set of sequences the query can return
getDocumentVersions(documentId) ==
    { result \in [1..Cardinality(VersionsOf(documentId)) -> VersionsOf(documentId)] :
        /\ \A i, j \in DOMAIN result : i # j => result[i] # result[j]
        /\ \A i, j \in DOMAIN result : i < j => result[i].version >= result[j].version }

\* current.version || 1
VersionOrOne(version) == IF version = NULL THEN 1 ELSE version

\* the row written by db.insert(workflows).values({...})
NewWorkflowRow(data) ==
    [status |-> IF "status" \in DOMAIN data THEN data.status ELSE "draft",
     currentAgent |-> data.currentAgent,
     contextVariables |-> data.contextVariables]

\* the row written by db.insert(documents).values({..., version: 1})
NewDocumentRow(data) ==
    [workflowId |-> data.workflowId, agentType |-> data.agentType,
     content |-> data.content, version |-> 1]

\* the row written by db.insert(documentVersions).values({...})
NewVersionRow(id, data) ==
    [id |-> id, documentId |-> data.documentId, version |-> data.version,
     content |-> data.content]

\* mutant: the update keeps the version it read instead of incrementing it
UpdatedDocumentRow_NoIncrement(row, updates, current) ==
    [workflowId |-> IF "workflowId" \in DOMAIN updates THEN updates.workflowId
                    ELSE row.workflowId,
     agentType |-> row.agentType,
     content |-> IF "content" \in DOMAIN updates THEN updates.content ELSE row.content,
     version |-> VersionOrOne(current.version)]

\* the documents row after .set({...updates, version: (current.version || 1) + 1})
UpdatedDocumentRow(row, updates, current) ==
    [workflowId |-> IF "workflowId" \in DOMAIN updates THEN updates.workflowId
                    ELSE row.workflowId,
     agentType |-> row.agentType,
     content |-> IF "content" \in DOMAIN updates THEN updates.content ELSE row.content,
     version |-> VersionOrOne(current.version) + 1]

\* a function without the keys in gone
Without(f, gone) == [k \in DOMAIN f \ gone |-> f[k]]

\* documents removed by ON DELETE CASCADE when workflow id is deleted
DocumentsOfWorkflow(id) == { d \in DOMAIN documents : documents[d].workflowId = id }

\* createWorkflow(data)
createWorkflow(data) ==
    /\ workflows' = [k \in DOMAIN workflows \cup {nextWorkflowId} |->
                        IF k = nextWorkflowId THEN NewWorkflowRow(data) ELSE workflows[k]]
    /\ nextWorkflowId' = nextWorkflowId + 1

\* updateWorkflow(id, updates): no row matches a missing id
updateWorkflow(id, updates) ==
    workflows' = [k \in DOMAIN workflows |->
                    IF k = id
                    THEN [f \in DOMAIN workflows[k] |->
                             IF f \in DOMAIN updates THEN updates[f] ELSE workflows[k][f]]
                    ELSE workflows[k]]

\* mutant: the delete also removes the documents that belong to no workflow
deleteWorkflow_DropsStandalone(id) ==
    /\ workflows' = Without(workflows, {id})
    /\ documents' = Without(documents, DocumentsOfWorkflow(id) \cup DocumentsOfWorkflow(NULL))
    /\ documentVersions' =
          { v \in documentVersions :
              v.documentId \notin DocumentsOfWorkflow(id) \cup DocumentsOfWorkflow(NULL) }

\* deleteWorkflow(id), with the cascade to documents and their versions
deleteWorkflow(id) ==
    /\ workflows' = Without(workflows, {id})
    /\ documents' = Without(documents, DocumentsOfWorkflow(id))
    /\ documentVersions' = { v \in documentVersions :
                                v.documentId \notin DocumentsOfWorkflow(id) }

\* createDocument(data), the foreign key holding
createDocument(data) ==
    /\ documents' = [k \in DOMAIN documents \cup {nextDocumentId} |->
                        IF k = nextDocumentId THEN NewDocumentRow(data) ELSE documents[k]]
    /\ nextDocumentId' = nextDocumentId + 1

\* deleteDocument(id), with the cascade to its versions
deleteDocument(id) ==
    /\ documents' = Without(documents, {id})
    /\ documentVersions' = { v \in documentVersions : v.documentId # id }

\* createDocumentVersion(data), the foreign key holding
createDocumentVersion(data) ==
    /\ documentVersions' = documentVersions \cup {NewVersionRow(nextVersionId, data)}
    /\ nextVersionId' = nextVersionId + 1

(***************************************************************************)
(* Storage operations as steps.  updateDocument suspends at each await, so *)
(* it is three steps; the other operations are one statement each.         *)
(***************************************************************************)
\* call slots are taken in order (they are interchangeable)
CallFree(c) ==
    calls[c].pc = "idle" /\ (IF c = 1 THEN TRUE ELSE calls[c - 1].pc # "idle")

\* const current = await this.getDocument(id); if (!current) return undefined;
UpdateDocumentRead(c, id, updates) ==
    /\ CallFree(c)
    /\ IF id \in DOMAIN documents
       THEN calls' = [calls EXCEPT ![c] =
                        [pc |-> "saveVersion", id |-> id, updates |-> updates,
                         current |-> [content |-> documents[id].content,
                                      version |-> documents[id].version],
                         savedId |-> NULL, result |-> "none"]]
       ELSE calls' = [calls EXCEPT ![c] =
                        [CallIdle EXCEPT !.pc = "returned", !.id = id,
                                         !.updates = updates, !.result = "undefined"]]
    /\ UNCHANGED <<storeVars, req, render, client>>

\* await this.createDocumentVersion({documentId: id, version: current.version || 1,
\* content: current.content}); the insert throws when the document is gone
UpdateDocumentSaveVersion(c) ==
    /\ calls[c].pc = "saveVersion"
    /\ IF calls[c].id \in DOMAIN documents
       THEN /\ createDocumentVersion([documentId |-> calls[c].id,
                                      version |-> VersionOrOne(calls[c].current.version),
                                      content |-> calls[c].current.content])
            /\ calls' = [calls EXCEPT ![c].pc = "write", ![c].savedId = nextVersionId]
       ELSE /\ calls' = [calls EXCEPT ![c].pc = "threw", ![c].result = "threw"]
            /\ UNCHANGED <<documentVersions, nextVersionId>>
    /\ UNCHANGED <<workflows, documents, nextWorkflowId, nextDocumentId,
                   constitution, req, render, client>>

\* const [document] = await db.update(documents).set({...}).where(eq(documents.id, id))
\* .returning(); return document || undefined;  the update throws when the
\* new workflow_id references no workflow
UpdateDocumentWrite(c) ==
    /\ calls[c].pc = "write"
    /\ IF calls[c].id \notin DOMAIN documents
       THEN /\ calls' = [calls EXCEPT ![c].pc = "returned", ![c].result = "undefined"]
            /\ UNCHANGED documents
       ELSE IF "workflowId" \in DOMAIN calls[c].updates
                /\ ~WorkflowKeyValid(calls[c].updates.workflowId)
       THEN /\ calls' = [calls EXCEPT ![c].pc = "threw", ![c].result = "threw"]
            /\ UNCHANGED documents
       ELSE /\ documents' = [documents EXCEPT ![calls[c].id] =
                                UpdatedDocumentRow(documents[calls[c].id],
                                                   calls[c].updates, calls[c].current)]
            /\ calls' = [calls EXCEPT ![c].pc = "returned", ![c].result = "document"]
    /\ UNCHANGED <<workflows, documentVersions, nextWorkflowId, nextDocumentId,
                   nextVersionId, constitution, req, render, client>>

\* storage.createWorkflow called with a draft workflow
StoreCreateWorkflow(agentType) ==
    /\ nextWorkflowId <= MaxWorkflows
    /\ createWorkflow([status |-> "draft", currentAgent |-> agentType,
                       contextVariables |-> <<>>])
    /\ UNCHANGED <<documents, documentVersions, nextDocumentId, nextVersionId,
                   constitution, calls, req, render, client>>

\* storage.deleteWorkflow(id)
StoreDeleteWorkflow(id) ==
    /\ id \in DOMAIN workflows
    /\ deleteWorkflow(id)
    /\ UNCHANGED <<nextWorkflowId, nextDocumentId, nextVersionId, constitution,
                   calls, req, render, client>>

\* storage.createDocument(data) with an admissible workflow id
StoreCreateDocument(workflowId, agentType, content) ==
    /\ nextDocumentId <= MaxDocuments
    /\ WorkflowKeyValid(workflowId)
    /\ createDocument([workflowId |-> workflowId, agentType |-> agentType,
                       content |-> content])
    /\ UNCHANGED <<workflows, documentVersions, nextWorkflowId, nextVersionId,
                   constitution, calls, req, render, client>>

\* storage.deleteDocument(id)
StoreDeleteDocument(id) ==
    /\ id \in DOMAIN documents
    /\ deleteDocument(id)
    /\ UNCHANGED <<workflows, nextWorkflowId, nextDocumentId, nextVersionId,
                   constitution, calls, req, render, client>>

(***************************************************************************)
(* shared/schema.ts : defaultContextVariables                              *)
(***************************************************************************)
Var(key, value) == [key |-> key, value |-> value]

defaultContextVariables ==
    [decision_author |->
        << Var(<<"target_audience">>, <<>>), Var(<<"organization_type">>, <<>>),
           Var(<<"regulatory_level">>, <<>>), Var(<<"ai_maturity_level">>, <<>>),
           Var(<<"tool_", "1">>, <<"AWS Kiro">>),
           Var(<<"tool_", "2">>, <<"GitHub Spec Kit">>),
           Var(<<"tool_", "3">>, <<"OpenSpec">>),
           Var(<<"tool_", "4">>, <<"BMAD Method">>),
           Var(<<"project_type">>, <<>>), Var(<<"system_complexity">>, <<>>),
           Var(<<"governance_priority">>, <<>>),
           Var(<<"existing_codebase_state">>, <<>>) >>,
     analyst |->
        << Var(<<"input_sources">>, <<>>), Var(<<"organization_type">>, <<>>),
           Var(<<"product_domain">>, <<>>), Var(<<"target_users">>, <<>>),
           Var(<<"regulatory_level">>, <<>>), Var(<<"delivery_constraints">>, <<>>) >>,
     architect |->
        << Var(<<"constitution_file">>, <<"constitution.md">>),
           Var(<<"organizational_constraints">>, <<>>), Var(<<"system_type">>, <<>>),
           Var(<<"deployment_environment">>, <<>>),
           Var(<<"scalability_requirements">>, <<>>),
           Var(<<"availability_targets">>, <<>>), Var(<<"regulatory_level">>, <<>>) >>,
     scrum_master |->
        << Var(<<"constitution_file">>, <<"constitution.md">>),
           Var(<<"sprint_duration">>, <<"2 weeks">>), Var(<<"team_size">>, <<>>),
           Var(<<"velocity_baseline">>, <<>>) >>,
     developer |->
        << Var(<<"constitution_file">>, <<"constitution.md">>),
           Var(<<"coding_standards">>, <<>>), Var(<<"testing_requirements">>, <<>>),
           Var(<<"tech_stack">>, <<>>) >>]

(***************************************************************************)
(* server/routes.ts : the handlers.  A handler runs from one await to the  *)
(* next without interruption; each step below is the completion of one     *)
(* awaited operation followed by the synchronous code up to the next await.*)
(***************************************************************************)
NaN == -1     \* parseInt of a non-numeric :id

Statuses == {"draft", "in_progress", "completed", "error"}

Chunks == { <<>>, <<"a">>, <<"b">> }     \* delta.content of one provider chunk

NoDocument == [id |-> NULL, workflowId |-> NULL, agentType |-> "", content |-> <<>>,
               version |-> NULL]

Requests == 1..MaxRequests

\* a request slot: the local variables of one handler invocation, what it
\* received from the provider and what it wrote to its response
ReqIdle == [op |-> "none", pc |-> "idle", id |-> NULL, agentType |-> "analyst",
            contextVariables |-> <<>>, constitution |-> <<>>, received |-> <<>>,
            fullContent |-> <<>>, events |-> <<>>, status |-> 0,
            document |-> NoDocument, providerCalls |-> 0, stream |-> "none",
            body |-> "none", ended |-> FALSE, aborted |-> FALSE]

\* the events written to the response with res.write
StepIndexEvent == [type |-> "stepIndex", content |-> <<>>, document |-> NoDocument]
ContentEvent(content) == [type |-> "content", content |-> content, document |-> NoDocument]
DoneEvent(document) == [type |-> "done", content |-> <<>>, document |-> document]
ErrorEvent == [type |-> "error", content |-> <<"Failed to generate content">>,
               document |-> NoDocument]

\* the row .returning() hands back from createDocument
ReturnedDocument(id, data) ==
    [id |-> id, workflowId |-> data.workflowId, agentType |-> data.agentType,
     content |-> data.content, version |-> 1]

\* workflow.currentAgent || "analyst"
AgentOrAnalyst(currentAgent) == IF currentAgent = "" THEN "analyst" ELSE currentAgent

\* request slots are taken in order (they are interchangeable)
ReqFree(r) ==
    req[r].pc = "idle" /\ (IF r = 1 THEN TRUE ELSE req[r - 1].pc # "idle")

\* mutant: the rejected request has reached the provider before it answers
Respond_CallsProvider(r, op, id, status) ==
    req' = [req EXCEPT ![r] = [ReqIdle EXCEPT !.op = op, !.pc = "done", !.id = id,
                                             !.status = status, !.providerCalls = 1]]

\* the handler returned a JSON response with this status
Respond(r, op, id, status) ==
    req' = [req EXCEPT ![r] = [ReqIdle EXCEPT !.op = op, !.pc = "done", !.id = id,
                                             !.status = status]]

\* POST /api/workflows with a valid body
PostWorkflow(startingAgent) ==
    /\ nextWorkflowId <= MaxWorkflows
    /\ createWorkflow([status |-> "draft", currentAgent |-> startingAgent,
                       contextVariables |-> defaultContextVariables[startingAgent]])
    /\ UNCHANGED <<documents, documentVersions, nextDocumentId, nextVersionId,
                   constitution, calls, req, render, client>>

\* POST /api/workflows with a body that createWorkflowBodySchema rejects
PostWorkflowInvalid(r) ==
    /\ ReqFree(r)
    /\ Respond(r, "createWorkflow", NULL, 400)
    /\ UNCHANGED <<storeVars, calls, render, client>>

\* POST /api/workflows with the body the new-workflow dialog submits: name,
\* startingAgent and contextVariables.  createWorkflowBodySchema has no
\* contextVariables key, so parseResult.data is without them and the row
\* gets defaultContextVariables[agentType].  The slot keeps the body sent.
PostWorkflowBody(r, startingAgent, contextVariables) ==
    /\ ReqFree(r)
    /\ nextWorkflowId <= MaxWorkflows
    /\ createWorkflow([status |-> "draft", currentAgent |-> startingAgent,
                       contextVariables |-> defaultContextVariables[startingAgent]])
    /\ req' = [req EXCEPT ![r] =
                  [ReqIdle EXCEPT !.op = "createWorkflow", !.pc = "done",
                                  !.id = nextWorkflowId, !.agentType = startingAgent,
                                  !.contextVariables = contextVariables,
                                  !.status = 201]]
    /\ UNCHANGED <<documents, documentVersions, nextDocumentId, nextVersionId,
                   constitution, calls, render, client>>

\* PATCH /api/workflows/:id : storage.updateWorkflow(id, req.body)
PatchWorkflow(id, body) ==
    /\ id \in DOMAIN workflows
    /\ updateWorkflow(id, body)
    /\ workflows' # workflows
    /\ UNCHANGED <<documents, documentVersions, nextWorkflowId, nextDocumentId,
                   nextVersionId, constitution, calls, req, render, client>>

\* DELETE /api/workflows/:id
DeleteWorkflow(id) ==
    /\ id \in DOMAIN workflows
    /\ deleteWorkflow(id)
    /\ UNCHANGED <<nextWorkflowId, nextDocumentId, nextVersionId, constitution,
                   calls, req, render, client>>

\* PUT /api/constitution : storage.setConstitution(content || "")
PutConstitution(content) ==
    /\ constitution' = content
    /\ constitution' # constitution
    /\ UNCHANGED <<workflows, documents, documentVersions, nextWorkflowId,
                   nextDocumentId, nextVersionId, calls, req, render, client>>

\* POST /api/workflows/:id/duplicate : const original = await this.getWorkflow(id)
DuplicateGetWorkflow(r, id) ==
    /\ ReqFree(r)
    /\ IF id \notin DOMAIN workflows
       THEN Respond(r, "duplicate", id, IF id = NaN THEN 400 ELSE 404)
       ELSE req' = [req EXCEPT ![r] =
                       [ReqIdle EXCEPT !.op = "duplicate", !.pc = "createWorkflow",
                                       !.id = id,
                                       !.agentType = workflows[id].currentAgent,
                                       !.contextVariables = workflows[id].contextVariables]]
    /\ UNCHANGED <<storeVars, calls, render, client>>

\* mutant: duplicating resets the original workflow to draft as well
DuplicateCreateWorkflow_ResetsOriginal(r) ==
    /\ req[r].op = "duplicate" /\ req[r].pc = "createWorkflow"
    /\ nextWorkflowId <= MaxWorkflows
    /\ workflows' =
          [k \in DOMAIN workflows \cup {nextWorkflowId} |->
              IF k = nextWorkflowId
              THEN NewWorkflowRow([status |-> "draft", currentAgent |-> req[r].agentType,
                                   contextVariables |-> req[r].contextVariables])
              ELSE IF k = req[r].id THEN [workflows[k] EXCEPT !.status = "draft"]
              ELSE workflows[k]]
    /\ nextWorkflowId' = nextWorkflowId + 1
    /\ req' = [req EXCEPT ![r].pc = "done", ![r].status = 201]
    /\ UNCHANGED <<documents, documentVersions, nextDocumentId, nextVersionId,
                   constitution, calls, render, client>>

\* return this.createWorkflow({..., status: "draft", ...}) with the copied fields
DuplicateCreateWorkflow(r) ==
    /\ req[r].op = "duplicate" /\ req[r].pc = "createWorkflow"
    /\ nextWorkflowId <= MaxWorkflows
    /\ createWorkflow([status |-> "draft", currentAgent |-> req[r].agentType,
                       contextVariables |-> req[r].contextVariables])
    /\ req' = [req EXCEPT ![r].pc = "done", ![r].status = 201]
    /\ UNCHANGED <<documents, documentVersions, nextDocumentId, nextVersionId,
                   constitution, calls, render, client>>

\* POST /api/workflows/:id/execute : parseInt, await storage.getWorkflow(id)
ExecuteWorkflowGetWorkflow(r, id) ==
    /\ ReqFree(r)
    /\ IF id \notin DOMAIN workflows
       THEN Respond(r, "executeWorkflow", id, IF id = NaN THEN 400 ELSE 404)
       ELSE req' = [req EXCEPT ![r] =
                       [ReqIdle EXCEPT !.op = "executeWorkflow", !.pc = "getConstitution",
                                       !.id = id,
                                       !.agentType = AgentOrAnalyst(workflows[id].currentAgent),
                                       !.contextVariables = workflows[id].contextVariables]]
    /\ UNCHANGED <<storeVars, calls, render, client>>

\* const constitution = await storage.getConstitution()
ExecuteWorkflowGetConstitution(r) ==
    /\ req[r].op = "executeWorkflow" /\ req[r].pc = "getConstitution"
    /\ req' = [req EXCEPT ![r].pc = "setInProgress", ![r].constitution = constitution]
    /\ UNCHANGED <<storeVars, calls, render, client>>

\* mutant: the handler marks the workflow in_progress only when it is a draft
ExecuteWorkflowSetInProgress_OnlyDraft(r) ==
    /\ req[r].op = "executeWorkflow" /\ req[r].pc = "setInProgress"
    /\ IF req[r].id \in DOMAIN workflows /\ workflows[req[r].id].status = "draft"
       THEN updateWorkflow(req[r].id, [status |-> "in_progress"])
       ELSE UNCHANGED workflows
    /\ IF getPromptForAgent(req[r].agentType, req[r].contextVariables,
                            req[r].constitution).threw
       THEN req' = [req EXCEPT ![r].pc = "done", ![r].status = 500]
       ELSE req' = [req EXCEPT ![r].pc = "awaitStream", ![r].status = 200,
                               ![r].events = <<StepIndexEvent>>,
                               ![r].providerCalls = req[r].providerCalls + 1]
    /\ UNCHANGED <<documents, documentVersions, nextWorkflowId, nextDocumentId,
                   nextVersionId, constitution, calls, render, client>>

\* await storage.updateWorkflow(id, {status: "in_progress"}); then the prompt
\* is rendered (a throw leaves through the outer catch, headers not sent:
\* 500), stepIndex is written and the provider call is issued
ExecuteWorkflowSetInProgress(r) ==
    /\ req[r].op = "executeWorkflow" /\ req[r].pc = "setInProgress"
    /\ updateWorkflow(req[r].id, [status |-> "in_progress"])
    /\ IF getPromptForAgent(req[r].agentType, req[r].contextVariables,
                            req[r].constitution).threw
       THEN req' = [req EXCEPT ![r].pc = "done", ![r].status = 500]
       ELSE req' = [req EXCEPT ![r].pc = "awaitStream", ![r].status = 200,
                               ![r].events = <<StepIndexEvent>>,
                               ![r].providerCalls = req[r].providerCalls + 1]
    /\ UNCHANGED <<documents, documentVersions, nextWorkflowId, nextDocumentId,
                   nextVersionId, constitution, calls, render, client>>

\* POST /api/agents/execute with a body the schema rejects
ExecuteAgentInvalid(r) ==
    /\ ReqFree(r)
    /\ Respond(r, "executeAgent", NULL, 400)
    /\ UNCHANGED <<storeVars, calls, render, client>>

\* POST /api/agents/execute with a valid body: await storage.getConstitution();
\* then the prompt is rendered and the provider call is issued
ExecuteAgentGetConstitution(r, agentType, contextVariables) ==
    /\ ReqFree(r)
    /\ IF getPromptForAgent(agentType, contextVariables, constitution).threw
       THEN req' = [req EXCEPT ![r] =
                       [ReqIdle EXCEPT !.op = "executeAgent", !.pc = "done",
                                       !.agentType = agentType,
                                       !.contextVariables = contextVariables,
                                       !.constitution = constitution, !.status = 500]]
       ELSE req' = [req EXCEPT ![r] =
                       [ReqIdle EXCEPT !.op = "executeAgent", !.pc = "awaitStream",
                                       !.agentType = agentType,
                                       !.contextVariables = contextVariables,
                                       !.constitution = constitution,
                                       !.providerCalls = 1]]
    /\ UNCHANGED <<storeVars, calls, render, client>>

Executing(r) == req[r].op \in {"executeWorkflow", "executeAgent"}

\* const stream = await openai.chat.completions.create({... stream: true})
ProviderOpens(r) ==
    /\ Executing(r) /\ req[r].pc = "awaitStream"
    /\ req' = [req EXCEPT ![r].pc = "streaming", ![r].stream = "open"]
    /\ UNCHANGED <<storeVars, calls, render, client>>

\* the browser's stopExecution: abortControllerRef.current.abort() severs the
\* connection of a running execution.  The handler registers no close
\* listener and tests no connection state, so nothing else changes.
ClientAborts(r) ==
    /\ Executing(r) /\ req[r].pc \in {"awaitStream", "streaming"}
    /\ ~req[r].aborted
    /\ req' = [req EXCEPT ![r].aborted = TRUE]
    /\ UNCHANGED <<storeVars, calls, render, client>>

\* mutant: after the client has gone the loop drops the chunks it reads
ProviderChunk_DropsAfterAbort(r, content) ==
    /\ Executing(r) /\ req[r].pc = "streaming"
    /\ Len(req[r].received) < MaxChunks
    /\ IF content # <<>> /\ ~req[r].aborted
       THEN req' = [req EXCEPT ![r].received = Append(req[r].received, content),
                               ![r].fullContent = req[r].fullContent \o content,
                               ![r].status = 200,
                               ![r].events = Append(req[r].events, ContentEvent(content))]
       ELSE req' = [req EXCEPT ![r].received = Append(req[r].received, content)]
    /\ UNCHANGED <<storeVars, calls, render, client>>

\* mutant: the loop marks the workflow completed as soon as a chunk arrives
ProviderChunk_MarksCompleted(r, content) ==
    /\ Executing(r) /\ req[r].pc = "streaming"
    /\ Len(req[r].received) < MaxChunks
    /\ IF content # <<>>
       THEN req' = [req EXCEPT ![r].received = Append(req[r].received, content),
                               ![r].fullContent = req[r].fullContent \o content,
                               ![r].status = 200,
                               ![r].events = Append(req[r].events, ContentEvent(content))]
       ELSE req' = [req EXCEPT ![r].received = Append(req[r].received, content)]
    /\ IF req[r].op = "executeWorkflow"
       THEN updateWorkflow(req[r].id, [status |-> "completed"])
       ELSE UNCHANGED workflows
    /\ UNCHANGED <<documents, documentVersions, nextWorkflowId, nextDocumentId,
                   nextVersionId, constitution, calls, render, client>>

\* mutant: the loop relays every chunk, empty ones too, and accumulates
\* only what follows the first
ProviderChunk_RelayAll(r, content) ==
    /\ Executing(r) /\ req[r].pc = "streaming"
    /\ Len(req[r].received) < MaxChunks
    /\ req' = [req EXCEPT ![r].received = Append(req[r].received, content),
                          ![r].fullContent = content \o req[r].fullContent,
                          ![r].status = 200,
                          ![r].events = Append(req[r].events, ContentEvent(content))]
    /\ UNCHANGED <<storeVars, calls, render, client>>

\* one iteration of for await (const chunk of stream)
ProviderChunk(r, content) ==
    /\ Executing(r) /\ req[r].pc = "streaming"
    /\ Len(req[r].received) < MaxChunks
    /\ IF content # <<>>
       THEN req' = [req EXCEPT ![r].received = Append(req[r].received, content),
                               ![r].fullContent = req[r].fullContent \o content,
                               ![r].status = 200,
                               ![r].events = Append(req[r].events, ContentEvent(content))]
       ELSE req' = [req EXCEPT ![r].received = Append(req[r].received, content)]
    /\ UNCHANGED <<storeVars, calls, render, client>>

\* the stream ends: the loop exits and createDocument is issued
ProviderEnds(r) ==
    /\ Executing(r) /\ req[r].pc = "streaming"
    /\ req' = [req EXCEPT ![r].pc = "createDocument", ![r].stream = "ended"]
    /\ UNCHANGED <<storeVars, calls, render, client>>

\* the provider call or the stream raises: control enters the inner catch,
\* which for a workflow awaits the status write and for a standalone agent
\* writes the error event at once
ProviderRaises(r) ==
    /\ Executing(r) /\ req[r].pc \in {"awaitStream", "streaming"}
    /\ IF req[r].op = "executeWorkflow"
       THEN req' = [req EXCEPT ![r].pc = "catch", ![r].stream = "raised"]
       ELSE req' = [req EXCEPT ![r].pc = "done", ![r].status = 200,
                               ![r].stream = "raised",
                               ![r].events = Append(req[r].events, ErrorEvent),
                               ![r].ended = TRUE]
    /\ UNCHANGED <<storeVars, calls, render, client>>

\* mutant: a standalone execution files its document under workflow 1
ExecutionDocument_FirstWorkflow(r) ==
    [workflowId |-> IF req[r].op = "executeWorkflow" THEN req[r].id
                    ELSE IF 1 \in DOMAIN workflows THEN 1 ELSE NULL,
     agentType |-> req[r].agentType, content |-> req[r].fullContent]

\* mutant: the document is filed under the default agent
ExecutionDocument_DefaultAgent(r) ==
    [workflowId |-> IF req[r].op = "executeWorkflow" THEN req[r].id ELSE NULL,
     agentType |-> "analyst", content |-> req[r].fullContent]

\* the document an execution persists
ExecutionDocument(r) ==
    [workflowId |-> IF req[r].op = "executeWorkflow" THEN req[r].id ELSE NULL,
     agentType |-> req[r].agentType, content |-> req[r].fullContent]

\* const document = await storage.createDocument({workflowId: id, ...}); the
\* insert throws into the inner catch when the workflow has been deleted
ExecuteWorkflowCreateDocument(r) ==
    /\ req[r].op = "executeWorkflow" /\ req[r].pc = "createDocument"
    /\ nextDocumentId <= MaxDocuments
    /\ IF WorkflowKeyValid(req[r].id)
       THEN /\ createDocument(ExecutionDocument(r))
            /\ req' = [req EXCEPT ![r].pc = "setCompleted",
                                  ![r].document =
                                      ReturnedDocument(nextDocumentId, ExecutionDocument(r))]
       ELSE /\ req' = [req EXCEPT ![r].pc = "catch"]
            /\ UNCHANGED <<documents, nextDocumentId>>
    /\ UNCHANGED <<workflows, documentVersions, nextWorkflowId, nextVersionId,
                   constitution, calls, render, client>>

\* mutant: completed is not written while another execution of the same
\* workflow is in flight
ExecuteWorkflowSetCompleted_Coordinated(r) ==
    /\ req[r].op = "executeWorkflow" /\ req[r].pc = "setCompleted"
    /\ IF \E e \in Requests \ {r} :
             /\ req[e].op = "executeWorkflow" /\ req[e].id = req[r].id
             /\ req[e].pc \in {"awaitStream", "streaming", "createDocument",
                               "setCompleted", "catch"}
       THEN UNCHANGED workflows
       ELSE updateWorkflow(req[r].id, [status |-> "completed"])
    /\ req' = [req EXCEPT ![r].pc = "done",
                          ![r].events = Append(req[r].events, DoneEvent(req[r].document)),
                          ![r].ended = TRUE]
    /\ UNCHANGED <<documents, documentVersions, nextWorkflowId, nextDocumentId,
                   nextVersionId, constitution, calls, render, client>>

\* await storage.updateWorkflow(id, {status: "completed"}); the done event; res.end()
ExecuteWorkflowSetCompleted(r) ==
    /\ req[r].op = "executeWorkflow" /\ req[r].pc = "setCompleted"
    /\ updateWorkflow(req[r].id, [status |-> "completed"])
    /\ req' = [req EXCEPT ![r].pc = "done",
                          ![r].events = Append(req[r].events, DoneEvent(req[r].document)),
                          ![r].ended = TRUE]
    /\ UNCHANGED <<documents, documentVersions, nextWorkflowId, nextDocumentId,
                   nextVersionId, constitution, calls, render, client>>

\* mutant: the catch block reports the failure without marking the workflow
ExecuteWorkflowCatch_NoStatus(r) ==
    /\ req[r].op = "executeWorkflow" /\ req[r].pc = "catch"
    /\ req' = [req EXCEPT ![r].pc = "done",
                          ![r].events = Append(req[r].events, ErrorEvent),
                          ![r].ended = TRUE]
    /\ UNCHANGED <<storeVars, calls, render, client>>

\* catch: await storage.updateWorkflow(id, {status: "error"}); the error event; res.end()
ExecuteWorkflowCatch(r) ==
    /\ req[r].op = "executeWorkflow" /\ req[r].pc = "catch"
    /\ updateWorkflow(req[r].id, [status |-> "error"])
    /\ req' = [req EXCEPT ![r].pc = "done",
                          ![r].events = Append(req[r].events, ErrorEvent),
                          ![r].ended = TRUE]
    /\ UNCHANGED <<documents, documentVersions, nextWorkflowId, nextDocumentId,
                   nextVersionId, constitution, calls, render, client>>

\* const document = await storage.createDocument({workflowId: null, ...}); the
\* done event; res.end()
ExecuteAgentCreateDocument(r) ==
    /\ req[r].op = "executeAgent" /\ req[r].pc = "createDocument"
    /\ nextDocumentId <= MaxDocuments
    /\ createDocument(ExecutionDocument(r))
    /\ req' = [req EXCEPT ![r].pc = "done", ![r].status = 200,
                          ![r].document =
                              ReturnedDocument(nextDocumentId, ExecutionDocument(r)),
                          ![r].events =
                              Append(req[r].events,
                                     DoneEvent(ReturnedDocument(nextDocumentId,
                                                                ExecutionDocument(r)))),
                          ![r].ended = TRUE]
    /\ UNCHANGED <<workflows, documentVersions, nextWorkflowId, nextVersionId,
                   constitution, calls, render, client>>

\* what the provider puts in message.content of a non-streaming completion
Completions == {"object", "malformed", "null"}

\* POST /api/documents/:id/validate : parseInt, await storage.getDocument(id)
ValidateGetDocument(r, id) ==
    /\ ReqFree(r)
    /\ IF id \notin DOMAIN documents
       THEN Respond(r, "validate", id, IF id = NaN THEN 400 ELSE 404)
       ELSE req' = [req EXCEPT ![r] =
                       [ReqIdle EXCEPT !.op = "validate", !.pc = "getConstitution",
                                       !.id = id]]
    /\ UNCHANGED <<storeVars, calls, render, client>>

\* const constitution = await storage.getConstitution(); the completion is requested
ValidateGetConstitution(r) ==
    /\ req[r].op = "validate" /\ req[r].pc = "getConstitution"
    /\ req' = [req EXCEPT ![r].pc = "awaitCompletion", ![r].constitution = constitution,
                          ![r].providerCalls = 1]
    /\ UNCHANGED <<storeVars, calls, render, client>>

\* JSON.parse(content || "{}") followed by res.json(result), or the catch:
\* text that is not JSON makes JSON.parse throw a SyntaxError
ParsedResponse(content) ==
    IF content = "malformed" THEN [status |-> 500, body |-> "error"]
    ELSE IF content = "null" THEN [status |-> 200, body |-> "{}"]
    ELSE [status |-> 200, body |-> "object"]

\* const validationResult = JSON.parse(...); res.json(validationResult)
ValidateCompletion(r, content) ==
    /\ req[r].op = "validate" /\ req[r].pc = "awaitCompletion"
    /\ req' = [req EXCEPT ![r].pc = "done", ![r].stream = content,
                          ![r].status = ParsedResponse(content).status,
                          ![r].body = ParsedResponse(content).body]
    /\ UNCHANGED <<storeVars, calls, render, client>>

\* the completion request raises: the catch answers 500
ValidateProviderRaises(r) ==
    /\ req[r].op = "validate" /\ req[r].pc = "awaitCompletion"
    /\ req' = [req EXCEPT ![r].pc = "done", ![r].stream = "raised",
                          ![r].status = 500, ![r].body = "error"]
    /\ UNCHANGED <<storeVars, calls, render, client>>

\* POST /api/decision-framework/recommend : the prompt is built from
\* req.body.answers and the completion is requested
RecommendRequest(r) ==
    /\ ReqFree(r)
    /\ req' = [req EXCEPT ![r] = [ReqIdle EXCEPT !.op = "recommend",
                                                 !.pc = "awaitCompletion",
                                                 !.providerCalls = 1]]
    /\ UNCHANGED <<storeVars, calls, render, client>>

\* const result = JSON.parse(...); res.json(result)
RecommendCompletion(r, content) ==
    /\ req[r].op = "recommend" /\ req[r].pc = "awaitCompletion"
    /\ req' = [req EXCEPT ![r].pc = "done", ![r].stream = content,
                          ![r].status = ParsedResponse(content).status,
                          ![r].body = ParsedResponse(content).body]
    /\ UNCHANGED <<storeVars, calls, render, client>>

\* the completion request raises: the catch answers 500
RecommendProviderRaises(r) ==
    /\ req[r].op = "recommend" /\ req[r].pc = "awaitCompletion"
    /\ req' = [req EXCEPT ![r].pc = "done", ![r].stream = "raised",
                          ![r].status = 500, ![r].body = "error"]
    /\ UNCHANGED <<storeVars, calls, render, client>>

(***************************************************************************)
(* client/src/pages/workflow-detail.tsx : the reader loop of                *)
(* executeWorkflow (the loop of executeAgent in agent-detail is the same)   *)
(***************************************************************************)
\* JSON.stringify of an event's payload: an opening atom, the value, "}"
Json(event) ==
    CASE event.type = "stepIndex" -> <<"{stepIndex:", "0", "}">>
      [] event.type = "content" -> <<"{content:">> \o event.content \o <<"}">>
      [] event.type = "done" -> <<"{done:true,document:", "DOCUMENT", "}">>
      [] OTHER -> <<"{error:", "Failed to generate content", "}">>

\* res.write(`data: ${JSON.stringify(payload)}\n\n`)
Line(event) == <<"data: ">> \o Json(event) \o <<"\n", "\n">>

RECURSIVE Wire(_)
\* the bytes of a response: its events' lines one after the other
Wire(events) == IF events = <<>> THEN <<>> ELSE Line(Head(events)) \o Wire(Tail(events))

RECURSIVE Split(_)
\* chunk.split("\n")
Split(text) ==
    IF \A i \in 1..Len(text) : text[i] # "\n" THEN <<text>>
    ELSE LET i == CHOOSE k \in 1..Len(text) :
                     text[k] = "\n" /\ \A j \in 1..(k - 1) : text[j] # "\n"
         IN  <<SubSeq(text, 1, i - 1)>> \o Split(SubSeq(text, i + 1, Len(text)))

\* JSON.parse(line.slice(6)): only a complete object parses, anything else
\* throws and the line is skipped
JsonParse(text) ==
    IF Len(text) >= 3 /\ text[Len(text)] = "}"
          /\ text[1] \in {"{stepIndex:", "{content:", "{done:true,document:", "{error:"}
          /\ \A i \in 2..(Len(text) - 1) : text[i] \in SingleChars \cup
                 {"0", "DOCUMENT", "Failed to generate content"}
    THEN [ok |-> TRUE,
          content |-> IF text[1] = "{content:" THEN SubSeq(text, 2, Len(text) - 1)
                      ELSE <<>>,
          document |-> text[1] = "{done:true,document:"]
    ELSE [ok |-> FALSE, content |-> <<>>, document |-> FALSE]

RECURSIVE ProcessLines(_, _)
\* for (const line of lines) { if (line.startsWith("data: ")) { try {...} catch {} } }
ProcessLines(lines, state) ==
    IF lines = <<>> THEN state
    ELSE LET line == Head(lines)
             data == IF line # <<>> /\ line[1] = "data: "
                     THEN JsonParse(Tail(line))
                     ELSE [ok |-> FALSE, content |-> <<>>, document |-> FALSE]
         IN  ProcessLines(Tail(lines),
                 IF data.ok
                 THEN [state EXCEPT !.fullContent = state.fullContent \o data.content,
                                    !.sawDocument = state.sawDocument \/ data.document]
                 ELSE state)

MaxRead == 12    \* most atoms one reader.read() delivers

ClientIdle == [pc |-> "idle", sent |-> <<>>, wire |-> <<>>, fullContent |-> <<>>,
               sawDocument |-> FALSE]

\* the event sequences a server response consists of: the step marker of a
\* workflow execution, a content event per non-empty chunk, then done or error
ServerStreams ==
    { <<StepIndexEvent>> \o [i \in 1..Len(chunks) |-> ContentEvent(chunks[i])] \o <<last>> :
        chunks \in UNION { [1..n -> Chunks \ {<<>>}] : n \in 0..MaxChunks },
        last \in {DoneEvent(NoDocument), ErrorEvent} }

\* fetch() has answered and the reader is obtained
ClientInit ==
    client \in { [ClientIdle EXCEPT !.pc = "reading", !.sent = events,
                                    !.wire = Wire(events)] : events \in ServerStreams }

\* const {done, value} = await reader.read() with the next n atoms of the
\* response; decode, split into lines, handle each line
ClientRead(n) ==
    /\ client.pc = "reading"
    /\ n <= Len(client.wire)
    /\ client' = [ProcessLines(Split(SubSeq(client.wire, 1, n)), client)
                     EXCEPT !.wire = SubSeq(client.wire, n + 1, Len(client.wire))]
    /\ UNCHANGED <<storeVars, calls, req, render>>

\* reader.read() reports done: the loop is left
ClientStreamEnds ==
    /\ client.pc = "reading"
    /\ client.wire = <<>>
    /\ client' = [client EXCEPT !.pc = "done"]
    /\ UNCHANGED <<storeVars, calls, req, render>>

(***************************************************************************)
(* Specifications                                                          *)
(***************************************************************************)
\* the empty database of a fresh deployment, no request in flight
InitStore ==
    /\ workflows = <<>>
    /\ documents = <<>>
    /\ documentVersions = {}
    /\ nextWorkflowId = 1
    /\ nextDocumentId = 1
    /\ nextVersionId = 1
    /\ constitution = <<>>
    /\ calls = [c \in Calls |-> CallIdle]
    /\ req = [r \in Requests |-> ReqIdle]

Init == InitStore /\ render = RenderIdle /\ client = ClientIdle

\* no updateDocument call is between its read and its return
NoCallInFlight == \A c \in Calls : calls[c].pc \in {"idle", "returned", "threw"}

\* the one-statement storage operations
StoreOperation ==
    \/ StoreCreateWorkflow("analyst")
    \/ \E id \in 1..MaxWorkflows : StoreDeleteWorkflow(id)
    \/ \E w \in 0..MaxWorkflows, x \in Contents : StoreCreateDocument(w, "analyst", x)
    \/ \E id \in 1..MaxDocuments : StoreDeleteDocument(id)

\* the storage layer under concurrent callers
NextStore ==
    \/ StoreOperation
    \/ \E c \in Calls, id \in 1..MaxDocuments, u \in UpdateBodies :
          UpdateDocumentRead(c, id, u)
    \/ \E c \in Calls : UpdateDocumentSaveVersion(c)
    \/ \E c \in Calls : UpdateDocumentWrite(c)

SpecStore == Init /\ [][NextStore]_vars

\* the storage layer when every operation runs to completion before the
\* next one starts
NextStoreSeq ==
    \/ NoCallInFlight /\ StoreOperation
    \/ NoCallInFlight /\ \E c \in Calls, id \in 1..MaxDocuments, u \in UpdateBodies :
          UpdateDocumentRead(c, id, u)
    \/ \E c \in Calls : UpdateDocumentSaveVersion(c)
    \/ \E c \in Calls : UpdateDocumentWrite(c)

SpecStoreSeq == Init /\ [][NextStoreSeq]_vars

\* the bodies of PATCH /api/workflows/:id: the status the client's reset
\* sends, and a variable list from its editor
PatchWorkflowBodies ==
    [status : {"draft"}] \cup [contextVariables : { <<Var(<<"(">>, <<"a">>)>> }]

\* the steps of the two streaming handlers and of the provider
ExecutionStep ==
    \/ \E r \in Requests, id \in {NaN} \cup 1..MaxWorkflows :
          ExecuteWorkflowGetWorkflow(r, id)
    \/ \E r \in Requests : ExecuteWorkflowGetConstitution(r)
    \/ \E r \in Requests : ExecuteWorkflowSetInProgress(r)
    \/ \E r \in Requests : ExecuteAgentInvalid(r)
    \/ \E r \in Requests, v \in { <<>>, <<Var(<<"(">>, <<"a">>)>> } :
          ExecuteAgentGetConstitution(r, "analyst", v)
    \/ \E r \in Requests : ProviderOpens(r)
    \/ \E r \in Requests : ProviderEnds(r)
    \/ \E r \in Requests : ProviderRaises(r)
    \/ \E r \in Requests : ExecuteWorkflowCreateDocument(r)
    \/ \E r \in Requests : ExecuteWorkflowSetCompleted(r)
    \/ \E r \in Requests : ExecuteWorkflowCatch(r)
    \/ \E r \in Requests : ExecuteAgentCreateDocument(r)

\* agent executions overlapping with each other and with the workflow routes
Next ==
    \/ PostWorkflow("developer")
    \/ \E id \in 1..MaxWorkflows, body \in PatchWorkflowBodies : PatchWorkflow(id, body)
    \/ \E id \in 1..MaxWorkflows : DeleteWorkflow(id)
    \/ ExecutionStep
    \/ \E r \in Requests, content \in Chunks : ProviderChunk(r, content)

Spec == Init /\ [][Next]_vars

\* every route of the server, requests overlapping at their awaits
NextApi ==
    \/ PostWorkflow("developer")
    \/ \E r \in Requests : PostWorkflowInvalid(r)
    \/ \E id \in 1..MaxWorkflows : PatchWorkflow(id, [status |-> "draft"])
    \/ \E id \in 1..MaxWorkflows : DeleteWorkflow(id)
    \/ \E content \in Constitutions : PutConstitution(content)
    \/ \E r \in Requests, id \in {NaN} \cup 1..MaxWorkflows : DuplicateGetWorkflow(r, id)
    \/ \E r \in Requests : DuplicateCreateWorkflow(r)
    \/ ExecutionStep
    \/ \E r \in Requests : ProviderChunk(r, <<"a">>)
    \/ \E r \in Requests, id \in {NaN} \cup 1..MaxDocuments : ValidateGetDocument(r, id)
    \/ \E r \in Requests : ValidateGetConstitution(r)
    \/ \E r \in Requests, content \in Completions : ValidateCompletion(r, content)
    \/ \E r \in Requests : ValidateProviderRaises(r)
    \/ \E id \in 1..MaxDocuments : UpdateDocumentRead(1, id, [content |-> <<"b">>])
    \/ UpdateDocumentSaveVersion(1)
    \/ UpdateDocumentWrite(1)

SpecApi == Init /\ [][NextApi]_vars

\* the two structured-response endpoints over a store that gains and loses
\* documents and a constitution
NextJson ==
    \/ \E x \in Contents : StoreCreateDocument(NULL, "analyst", x)
    \/ \E id \in 1..MaxDocuments : StoreDeleteDocument(id)
    \/ \E content \in Constitutions : PutConstitution(content)
    \/ \E r \in Requests, id \in {NaN} \cup 1..MaxDocuments : ValidateGetDocument(r, id)
    \/ \E r \in Requests : ValidateGetConstitution(r)
    \/ \E r \in Requests, content \in Completions : ValidateCompletion(r, content)
    \/ \E r \in Requests : ValidateProviderRaises(r)
    \/ \E r \in Requests : RecommendRequest(r)
    \/ \E r \in Requests, content \in Completions : RecommendCompletion(r, content)
    \/ \E r \in Requests : RecommendProviderRaises(r)

SpecJson == Init /\ [][NextJson]_vars

\* executions overlapping with each other, the browser free to abort them
NextExecute ==
    \/ PostWorkflow("developer")
    \/ ExecutionStep
    \/ \E r \in Requests, content \in Chunks : ProviderChunk(r, content)
    \/ \E r \in Requests : ClientAborts(r)

SpecExecute == Init /\ [][NextExecute]_vars

\* the variable lists the new-workflow dialog submits: none, or the
\* developer's list with a value filled in
DialogVariables ==
    { <<>>,
      << Var(<<"constitution_file">>, <<"constitution.md">>),
         Var(<<"coding_standards">>, <<"a">>), Var(<<"testing_requirements">>, <<>>),
         Var(<<"tech_stack">>, <<>>) >> }

\* workflows created from the dialog and then executed
NextCreate ==
    \/ \E r \in Requests, v \in DialogVariables : PostWorkflowBody(r, "developer", v)
    \/ ExecutionStep
    \/ \E r \in Requests : ProviderChunk(r, <<"a">>)

SpecCreate == Init /\ [][NextCreate]_vars

\* getPromptForAgent on every input of the bounded sets
InitPrompt == InitStore /\ RenderInit /\ client = ClientIdle

\* the browser reading the event stream of one execution, the transport
\* free to cut the stream anywhere
InitClient == InitStore /\ render = RenderIdle /\ ClientInit

NextClient ==
    \/ \E n \in 1..MaxRead : ClientRead(n)
    \/ ClientStreamEnds

SpecClient == InitClient /\ [][NextClient]_vars

NextPrompt == Render

SpecPrompt == InitPrompt /\ [][NextPrompt]_vars

(***************************************************************************)
(* Claims about getPromptForAgent                                          *)
(***************************************************************************)
\* the keys of the variables in a list
KeysOf(variables) == { variables[i].key : i \in 1..Len(variables) }

\* C1: every placeholder {{x}} of the agent's template for which the list
\* has no variable with key x is replaced by the sentinel "[x not
\* specified]" and its literal text {{x}} is not in the output (constitution
\* empty).
C1_UnsuppliedPlaceholderGetsSentinel ==
    (render.pc = "returned" /\ render.constitution = <<>>) =>
        \A x \in PlaceholderNames :
            (Contains(PROMPTS[render.agentType], Ph(x)) /\ x \notin KeysOf(render.variables))
                => /\ Contains(render.out, Sentinel(x))
                   /\ ~Contains(render.out, Ph(x))

(***************************************************************************)
(* Claims about the document / version store                               *)
(***************************************************************************)
\* the call made the step from pc `from` to pc `to`
CallStep(c, from, to) == calls[c].pc = from /\ calls'[c].pc = to

\* C2: an updateDocument that nothing interleaves with, on a document whose
\* live row has content c and version v, inserts exactly one version row,
\* carrying c and v, and leaves the live row with the supplied content and
\* version v + 1.
C2_UpdateSnapshotsThenIncrements ==
    [][\A c \in Calls :
        LET d == calls[c].id IN
        /\ CallStep(c, "saveVersion", "write") =>
              /\ documents' = documents
              /\ \E row \in documentVersions' :
                    /\ row \notin documentVersions
                    /\ documentVersions' = documentVersions \cup {row}
                    /\ row.documentId = d
                    /\ row.content = documents[d].content
                    /\ row.version = documents[d].version
        /\ (CallStep(c, "write", "returned") /\ calls'[c].result = "document") =>
              /\ documentVersions' = documentVersions
              /\ \E row \in VersionsOf(d) :
                    /\ row.id = calls[c].savedId
                    /\ row.content = documents[d].content
                    /\ row.version = documents[d].version
              /\ documents'[d].content = calls[c].updates.content
              /\ documents'[d].version = documents[d].version + 1
      ]_vars

\* C2 witness: an update has returned the document, with new content and
\* the pre-update content in the version row it saved
C2_Witness ==
    \E c \in Calls :
        /\ calls[c].result = "document"
        /\ calls[c].id \in DOMAIN documents
        /\ documents[calls[c].id].content = calls[c].updates.content
        /\ documents[calls[c].id].content # calls[c].current.content
        /\ documents[calls[c].id].version = 2
        /\ \E row \in VersionsOf(calls[c].id) :
              row.id = calls[c].savedId /\ row.content = calls[c].current.content

\* updateDocument calls on document d that returned the updated document
CompletedUpdates(d) == { c \in Calls : calls[c].id = d /\ calls[c].result = "document" }

\* no updateDocument call on d is in flight or has thrown
UpdatesSettled(d) ==
    \A c \in Calls : calls[c].id = d => calls[c].pc \in {"idle", "returned"}

\* C3: once N updateDocument operations on a document have completed,
\* sequentially or overlapping, it has exactly N version rows and its live
\* version is 1 + N.
C3_NUpdatesGiveNVersions ==
    \A d \in DOMAIN documents :
        UpdatesSettled(d) =>
            /\ Cardinality(VersionsOf(d)) = Cardinality(CompletedUpdates(d))
            /\ documents[d].version = 1 + Cardinality(CompletedUpdates(d))

\* the highest version among the version rows of a document that has some
MaxVersion(d) ==
    CHOOSE m \in { v.version : v \in VersionsOf(d) } :
        \A v \in VersionsOf(d) : v.version <= m

\* C4: in every reachable state a document's version is 1 when it has no
\* version rows and otherwise one plus the highest version among them.
C4_VersionIsOnePlusHighestSnapshot ==
    \A d \in DOMAIN documents :
        documents[d].version = IF VersionsOf(d) = {} THEN 1 ELSE 1 + MaxVersion(d)

\* C5: the version-row insert and the document-row update of one
\* updateDocument call take effect as a unit: while the call has not
\* updated the document row (it is still to do so, or it failed), the
\* version row it inserted is not in the store.
C5_SnapshotAndUpdateAtomic ==
    \A c \in Calls :
        (calls[c].savedId # NULL /\ calls[c].result # "document") =>
            ~\E v \in documentVersions : v.id = calls[c].savedId

(***************************************************************************)
(* Claims about agent execution                                            *)
(***************************************************************************)
\* the request made a step
Stepped(r) == req'[r] # req[r]

RECURSIVE ContentsOf(_)
\* the contents of the content events of an event sequence, in order
ContentsOf(events) ==
    IF events = <<>> THEN <<>>
    ELSE IF Head(events).type = "content"
         THEN <<Head(events).content>> \o ContentsOf(Tail(events))
         ELSE ContentsOf(Tail(events))

\* the non-empty chunks of a chunk sequence, in order
NonEmpty(chunks) == SelectSeq(chunks, LAMBDA c : c # <<>>)

\* the events of one type in an event sequence
EventsOfType(events, type) == { i \in 1..Len(events) : events[i].type = type }

\* content events for a sequence of chunks
RECURSIVE ContentEvents(_)
ContentEvents(chunks) ==
    IF chunks = <<>> THEN <<>>
    ELSE <<ContentEvent(Head(chunks))>> \o ContentEvents(Tail(chunks))

\* C6: a workflow execution whose provider call raises, before or during
\* streaming, creates no document, calls the provider once, sets the
\* workflow status to error, and sends stepIndex, the content events of the
\* chunks received so far in order, one error event and no done event.
C6_ProviderFailure ==
    [][\A r \in Requests :
        (req'[r].op = "executeWorkflow" /\ req'[r].stream = "raised" /\ Stepped(r)) =>
            /\ documents' = documents
            /\ req'[r].document = NoDocument
            /\ req'[r].providerCalls = 1
            /\ req'[r].pc = "done" =>
                  /\ req'[r].events = <<StepIndexEvent>>
                                        \o ContentEvents(NonEmpty(req'[r].received))
                                        \o <<ErrorEvent>>
                  /\ req'[r].ended
                  /\ req'[r].id \in DOMAIN workflows' =>
                        workflows'[req'[r].id].status = "error"
      ]_vars

\* C6 witness: the provider raised after two chunks were relayed; the
\* request has finished and the workflow is in error
C6_Witness ==
    \E r \in Requests :
        /\ req[r].op = "executeWorkflow" /\ req[r].stream = "raised" /\ req[r].pc = "done"
        /\ Len(NonEmpty(req[r].received)) = 2
        /\ req[r].events[Len(req[r].events)] = ErrorEvent
        /\ req[r].id \in DOMAIN workflows
        /\ workflows[req[r].id].status = "error"

\* C7: a workflow execution whose stream completes and whose writes the
\* store accepts creates exactly one document (owned by the workflow, agent
\* type of the workflow, version 1, content the accumulated text), sets the
\* status to completed, and ends the response with a single done event
\* carrying that document, with no error event.
C7_SuccessfulExecution ==
    [][\A r \in Requests :
        (req'[r].op = "executeWorkflow" /\ Stepped(r)) =>
            /\ IF req[r].pc = "createDocument" /\ req'[r].pc = "setCompleted"
               THEN LET id == req'[r].document.id IN
                    /\ id \notin DOMAIN documents
                    /\ DOMAIN documents' = DOMAIN documents \cup {id}
                    /\ \A d \in DOMAIN documents : documents'[d] = documents[d]
                    /\ documents'[id].workflowId = req[r].id
                    /\ documents'[id].agentType =
                          AgentOrAnalyst(workflows[req[r].id].currentAgent)
                    /\ documents'[id].version = 1
                    /\ documents'[id].content = Concat(req[r].received)
                    /\ req'[r].document =
                          [id |-> id, workflowId |-> documents'[id].workflowId,
                           agentType |-> documents'[id].agentType,
                           content |-> documents'[id].content,
                           version |-> documents'[id].version]
               ELSE documents' = documents
            /\ (req[r].pc = "setCompleted" /\ req'[r].pc = "done") =>
                  /\ req'[r].events[Len(req'[r].events)] = DoneEvent(req[r].document)
                  /\ Cardinality(EventsOfType(req'[r].events, "done")) = 1
                  /\ EventsOfType(req'[r].events, "error") = {}
                  /\ req'[r].ended
                  /\ req[r].id \in DOMAIN workflows' =>
                        workflows'[req[r].id].status = "completed"
      ]_vars

\* C7 witness: an execution has finished with a done event for a document
\* with text, and the workflow is completed
C7_Witness ==
    \E r \in Requests :
        /\ req[r].op = "executeWorkflow" /\ req[r].pc = "done" /\ req[r].stream = "ended"
        /\ req[r].document.content = <<"a", "b">>
        /\ req[r].events[Len(req[r].events)].type = "done"
        /\ req[r].id \in DOMAIN workflows
        /\ workflows[req[r].id].status = "completed"

\* the status of an existing workflow changes in this step
StatusChanges(w) ==
    /\ w \in DOMAIN workflows
    /\ w \in DOMAIN workflows'
    /\ workflows'[w].status # workflows[w].status

\* this step is a step of a workflow execution
ExecuteStepped == \E r \in Requests : Stepped(r) /\ req'[r].op = "executeWorkflow"

\* C8 (as claimed): execute moves a workflow to in_progress only from
\* draft, and to completed or error only from in_progress.
C8_StateMachineAsClaimed ==
    [][\A w \in 1..MaxWorkflows :
        (StatusChanges(w) /\ ExecuteStepped) =>
            \/ workflows[w].status = "draft" /\ workflows'[w].status = "in_progress"
            \/ /\ workflows[w].status = "in_progress"
               /\ workflows'[w].status \in {"completed", "error"}
      ]_vars

\* C8 (amended): an execution writes in_progress at its start whatever the
\* status of its workflow is, completed after its document is stored and
\* error from its catch block, whatever the status is at that moment; it
\* writes no other status and touches no other workflow.
C8_ExecuteStatusWrites ==
    [][\A r \in Requests :
        (Stepped(r) /\ req'[r].op = "executeWorkflow") =>
            \A w \in DOMAIN workflows :
                /\ w \in DOMAIN workflows'
                /\ workflows'[w].status =
                      IF w # req[r].id THEN workflows[w].status
                      ELSE IF req[r].pc = "setInProgress" THEN "in_progress"
                      ELSE IF req[r].pc = "setCompleted" THEN "completed"
                      ELSE IF req[r].pc = "catch" THEN "error"
                      ELSE workflows[w].status
      ]_vars

\* C8 witness: a workflow that one execution has completed is in_progress
\* again under a second execution
C8_Witness ==
    \E r1, r2 \in Requests :
        /\ r1 # r2
        /\ req[r1].op = "executeWorkflow" /\ req[r2].op = "executeWorkflow"
        /\ req[r1].id = req[r2].id
        /\ req[r1].pc = "done" /\ req[r1].stream = "ended"
        /\ req[r2].pc = "awaitStream"
        /\ req[r1].id \in DOMAIN workflows
        /\ workflows[req[r1].id].status = "in_progress"

\* C9 (as claimed): the status of an existing workflow is changed only by
\* the execute operation.
C9_OnlyExecuteChangesStatus ==
    [][\A w \in 1..MaxWorkflows : StatusChanges(w) => ExecuteStepped]_vars

\* C9 (amended): the status of an existing workflow is changed only by the
\* execute operation and by PATCH /api/workflows/:id with a status in its
\* body; no other route changes it.
C9_OnlyExecuteAndPatchChangeStatus ==
    [][\A w \in 1..MaxWorkflows :
        StatusChanges(w) =>
            \/ ExecuteStepped
            \/ \E status \in Statuses : PatchWorkflow(w, [status |-> status])
      ]_vars

\* C9 witness: a workflow whose execution has finished is a draft again,
\* which only the PATCH route can have done
C9_Witness ==
    \E r \in Requests :
        /\ req[r].op = "executeWorkflow" /\ req[r].pc = "done" /\ req[r].ended
        /\ req[r].id \in DOMAIN workflows
        /\ workflows[req[r].id].status = "draft"

\* C10: within one execution the content events are the non-empty chunks in
\* the order received, and the text persisted at the end is the
\* concatenation of the relayed contents in that order.
C10_RelayOrder ==
    [][\A r \in Requests :
        (Stepped(r) /\ req'[r].op \in {"executeWorkflow", "executeAgent"}) =>
            /\ ContentsOf(req'[r].events) = NonEmpty(req'[r].received)
            /\ (req[r].document = NoDocument /\ req'[r].document # NoDocument) =>
                  /\ req'[r].document.id \in DOMAIN documents'
                  /\ documents'[req'[r].document.id].content =
                        Concat(ContentsOf(req'[r].events))
                  /\ req'[r].document.content = Concat(ContentsOf(req'[r].events))
      ]_vars

\* C10 witness: a standalone execution received "a", an empty chunk's worth
\* of nothing, then "b", and persisted "ab"
C10_Witness ==
    \E r \in Requests :
        /\ req[r].op = "executeAgent" /\ req[r].pc = "done"
        /\ req[r].received = << <<"a">>, <<"b">> >>
        /\ req[r].document.content = <<"a", "b">>

(***************************************************************************)
(* Claims about the structured-response endpoints                          *)
(***************************************************************************)
\* C11: when the provider's message content is not valid JSON, validate and
\* recommend do not answer with an error: they answer 200 with an empty
\* result object.
C11_MalformedJsonGivesEmptyObject ==
    \A r \in Requests :
        (/\ req[r].op \in {"validate", "recommend"}
         /\ req[r].pc = "done"
         /\ req[r].stream = "malformed") =>
            (req[r].status = 200 /\ req[r].body = "{}")

(***************************************************************************)
(* Further claims about getPromptForAgent                                  *)
(***************************************************************************)
\* the rendered template: the output without the appended constitution section
TemplatePart(r) ==
    IF r.constitution = <<>> THEN r.out
    ELSE SubSeq(r.out, 1, Len(r.out) - Len(ConstitutionLabel) - Len(r.constitution))

RECURSIVE ExactReplaceFrom(_, _, _, _)
\* every occurrence of the text t in s, and nothing else, replaced by v verbatim
ExactReplaceFrom(s, t, v, i) ==
    IF i > Len(s) THEN <<>>
    ELSE IF i + Len(t) - 1 <= Len(s) /\ SubSeq(s, i, i + Len(t) - 1) = t
         THEN v \o ExactReplaceFrom(s, t, v, i + Len(t))
         ELSE <<s[i]>> \o ExactReplaceFrom(s, t, v, i + 1)

ExactReplace(s, t, v) == ExactReplaceFrom(s, t, v, 1)

\* C12: for every supplied variable whose key k has a placeholder {{k}} in
\* the template, no occurrence of {{k}} is left in the rendered template,
\* and (one variable, no constitution) the output is the template with each
\* occurrence of {{k}} replaced by that variable's value.
C12_EveryOccurrenceReplacedByValue ==
    render.pc = "returned" =>
        \A i \in 1..Len(render.variables) :
            LET k == render.variables[i].key
                template == PROMPTS[render.agentType]
            IN  Contains(template, Ph(k)) =>
                    /\ ~Contains(TemplatePart(render), Ph(k))
                    /\ (Len(render.variables) = 1 /\ render.constitution = <<>>) =>
                            render.out = ExactReplace(template, Ph(k),
                                                      render.variables[i].value)

\* C13: placeholders are matched by exact key equality: a placeholder {{x}}
\* of the template whose name x is the key of no supplied variable is never
\* replaced by the variable loop (it is still in the output; the reserved
\* placeholder is set aside when a constitution is supplied).
C13_ExactKeyMatch ==
    render.pc = "returned" =>
        \A x \in PlaceholderNames :
            (/\ Contains(PROMPTS[render.agentType], Ph(x))
             /\ x \notin KeysOf(render.variables)
             /\ (x = <<"constitution_file">> => render.constitution = <<>>)) =>
                Contains(render.out, Ph(x))

\* C14: the call returns a string and does not throw, whatever keys the
\* supplied variables have.
C14_NeverThrows == render.pc # "threw"

\* C15: with a non-empty constitution the output is the variable-substituted
\* template with every remaining {{constitution_file}} replaced by "the
\* project constitution", then the delimiter and label, then the constitution
\* text as the final suffix; with an empty constitution the output is exactly
\* the variable-substituted template and nothing is appended.
C15_ConstitutionAppended ==
    render.pc = "returned" =>
        LET substituted == SubstituteVariables(PROMPTS[render.agentType],
                                               render.variables).value
            suffix == ConstitutionLabel \o render.constitution
        IN  IF render.constitution # <<>>
            THEN /\ render.out =
                       ExactReplace(substituted, Ph(<<"constitution_file">>),
                                    ConstitutionPhrase) \o suffix
                 /\ SubSeq(render.out, Len(render.out) - Len(suffix) + 1,
                           Len(render.out)) = suffix
                 /\ ~Contains(TemplatePart(render), Ph(<<"constitution_file">>))
            ELSE /\ render.out = substituted
                 /\ ~Contains(render.out, ConstitutionLabel)

\* a call with a constitution on a template that uses the reserved
\* placeholder has returned, and its output carries the fixed phrase
C15_Witness ==
    /\ render.pc = "returned"
    /\ render.constitution # <<>>
    /\ Contains(PROMPTS[render.agentType], Ph(<<"constitution_file">>))
    /\ <<"constitution_file">> \notin KeysOf(render.variables)
    /\ Contains(render.out, ConstitutionPhrase)

(***************************************************************************)
(* Claims about the version history                                        *)
(***************************************************************************)
\* C16: getDocumentVersions(d) returns exactly the version rows owned by d,
\* most recent first, and the live state of d is never among them: no
\* returned row carries the live version number with the live content.
C16_HistoryExcludesLive ==
    \A d \in DOMAIN documents :
        \A result \in getDocumentVersions(d) :
            /\ { result[i] : i \in DOMAIN result } =
                  { v \in documentVersions : v.documentId = d }
            /\ Len(result) = Cardinality({ v \in documentVersions : v.documentId = d })
            /\ \A i \in 1..(Len(result) - 1) : result[i].version >= result[i + 1].version
            /\ \A i \in DOMAIN result :
                  ~(/\ result[i].version = documents[d].version
                    /\ result[i].content = documents[d].content)

\* the call is a restore: its new content is the stored content of one of
\* the document's version rows
IsRestore(c) ==
    \E k \in VersionsOf(calls[c].id) : k.content = calls[c].updates.content

\* C17: a restore (updateDocument with the content of version row k) appends
\* one version row holding the content and version number that are live when
\* it is inserted, then sets the live content to version k's content, and
\* leaves every version row that existed before unchanged.
C17_RestoreAppendsSnapshot ==
    [][\A c \in Calls :
        LET d == calls[c].id IN
        /\ (CallStep(c, "saveVersion", "write") /\ IsRestore(c)) =>
              \E row \in documentVersions' :
                 /\ row \notin documentVersions
                 /\ documentVersions' = documentVersions \cup {row}
                 /\ row.documentId = d
                 /\ row.content = documents[d].content
                 /\ row.version = documents[d].version
        /\ (CallStep(c, "write", "returned") /\ calls'[c].result = "document"
               /\ IsRestore(c)) =>
              /\ documentVersions' = documentVersions
              /\ documents'[d].content = calls[c].updates.content
      ]_vars

(***************************************************************************)
(* Claims about deletion                                                   *)
(***************************************************************************)
\* C18: a step that deletes workflow w removes w, exactly the documents
\* whose workflowId is w and exactly the version rows of those documents,
\* and changes no other workflow, document or version row; a step that
\* deletes document d alone removes d and exactly d's version rows.
C18_DeleteCascades ==
    [][/\ \A w \in DOMAIN workflows :
            w \notin DOMAIN workflows' =>
               /\ DOMAIN workflows' = DOMAIN workflows \ {w}
               /\ \A k \in DOMAIN workflows' : workflows'[k] = workflows[k]
               /\ DOMAIN documents' =
                     { d \in DOMAIN documents : documents[d].workflowId # w }
               /\ \A d \in DOMAIN documents' : documents'[d] = documents[d]
               /\ documentVersions' =
                     { v \in documentVersions :
                         documents[v.documentId].workflowId # w }
       /\ \A d \in DOMAIN documents :
            (d \notin DOMAIN documents' /\ DOMAIN workflows' = DOMAIN workflows) =>
               /\ workflows' = workflows
               /\ DOMAIN documents' = DOMAIN documents \ {d}
               /\ \A k \in DOMAIN documents' : documents'[k] = documents[k]
               /\ documentVersions' = { v \in documentVersions : v.documentId # d }
      ]_vars

\* workflow 1 was deleted after an update had attached document 1 to it and
\* saved a version row of it: document 1 and its rows are gone, while the
\* standalone document 2 and the version row of its own update remain
C18_Witness ==
    /\ nextWorkflowId > 1 /\ 1 \notin DOMAIN workflows
    /\ DOMAIN documents = {2}
    /\ documents[2].workflowId = NULL
    /\ \E c1, c2 \in Calls :
          /\ calls[c1].id = 1 /\ calls[c1].result = "document"
          /\ "workflowId" \in DOMAIN calls[c1].updates
          /\ calls[c1].updates.workflowId = 1
          /\ calls[c2].id = 2 /\ calls[c2].result = "document"
          /\ documentVersions # {}
          /\ \A v \in documentVersions : v.id = calls[c2].savedId

(***************************************************************************)
(* Claims about rejected requests                                          *)
(***************************************************************************)
\* the request or call is answered as invalid or not found in its first step
Rejected(r) ==
    req[r].pc = "idle" /\ req'[r].pc = "done" /\ req'[r].status \in {400, 404}

RejectedUpdate(c) ==
    calls[c].pc = "idle" /\ calls'[c].pc = "returned" /\ calls'[c].result = "undefined"

\* C19: a request rejected as invalid or not found (workflow execute with a
\* non-numeric or unknown id, agent execute or workflow create with an
\* invalid body, document update or validate with an unknown document id)
\* leaves every table as it was and makes no provider call.
C19_RejectedRequestHasNoEffect ==
    [][/\ \A r \in Requests :
            Rejected(r) =>
               /\ req'[r].op \in {"executeWorkflow", "executeAgent", "createWorkflow",
                                  "validate", "duplicate"}
               /\ storeVars' = storeVars
               /\ req'[r].providerCalls = 0
               /\ req'[r].events = <<>>
               /\ req'[r].document = NoDocument
       /\ \A c \in Calls :
            RejectedUpdate(c) =>
               /\ calls'[c].id \notin DOMAIN documents
               /\ storeVars' = storeVars
               /\ calls'[c].savedId = NULL
      ]_vars

\* with a workflow in the store, an execute of an unknown workflow was
\* answered 404, an invalid body 400, and an update of an unknown document
\* returned not-found
C19_Witness ==
    /\ workflows # <<>>
    /\ \E r \in Requests :
          req[r].op = "executeWorkflow" /\ req[r].pc = "done" /\ req[r].status = 404
    /\ \E r \in Requests :
          req[r].op \in {"executeAgent", "createWorkflow"} /\ req[r].status = 400
    /\ calls[1].result = "undefined" /\ calls[1].savedId = NULL

(***************************************************************************)
(* Claims about the agent pipeline                                         *)
(***************************************************************************)
\* C20: a workflow execution that has sent its done event has invoked the
\* provider once for each of the five agents.
C20_ExecuteRunsAllFiveAgents ==
    \A r \in Requests :
        (/\ req[r].op = "executeWorkflow"
         /\ EventsOfType(req[r].events, "done") # {}) =>
            req[r].providerCalls = Cardinality(agentTypes)

(***************************************************************************)
(* Claims about workflow creation                                          *)
(***************************************************************************)
\* C21: a workflow created with caller-supplied context variables stores
\* exactly those variables, and an execution of that workflow renders its
\* prompt with them.
C21_SuppliedVariablesStored ==
    \A r \in Requests :
        (/\ req[r].op = "createWorkflow" /\ req[r].status = 201
         /\ req[r].contextVariables # <<>>) =>
            /\ workflows[req[r].id].contextVariables = req[r].contextVariables
            /\ \A e \in Requests :
                  (req[e].op = "executeWorkflow" /\ req[e].id = req[r].id
                     /\ req[e].providerCalls > 0) =>
                      req[e].contextVariables = req[r].contextVariables

(***************************************************************************)
(* Claims about operations not bound to a workflow                         *)
(***************************************************************************)
\* C22: every step of a standalone agent execution leaves the workflows and
\* the version rows unchanged and creates at most one document in the whole
\* request, with a null workflow id; every step of a document validation
\* leaves workflows, documents and version rows unchanged.
C22_UnboundOperationsLeaveWorkflows ==
    [][\A r \in Requests :
        /\ (Stepped(r) /\ req'[r].op = "executeAgent") =>
              /\ workflows' = workflows
              /\ documentVersions' = documentVersions
              /\ \/ documents' = documents
                 \/ /\ req[r].document = NoDocument
                    /\ DOMAIN documents' = DOMAIN documents \cup {nextDocumentId}
                    /\ nextDocumentId \notin DOMAIN documents
                    /\ documents'[nextDocumentId].workflowId = NULL
                    /\ \A d \in DOMAIN documents : documents'[d] = documents[d]
        /\ (Stepped(r) /\ req'[r].op = "validate") =>
              /\ workflows' = workflows
              /\ documents' = documents
              /\ documentVersions' = documentVersions
      ]_vars

\* beside an existing workflow, a standalone execution has stored its
\* document and a validation of a document has been answered
C22_Witness ==
    /\ workflows # <<>>
    /\ \E r, v \in Requests :
          /\ req[r].op = "executeAgent" /\ req[r].pc = "done"
          /\ req[r].document # NoDocument
          /\ req[r].document.id \in DOMAIN documents
          /\ documents[req[r].document.id].workflowId = NULL
          /\ req[v].op = "validate" /\ req[v].pc = "done" /\ req[v].status = 200

(***************************************************************************)
(* Claims about the order of writes in a workflow execution                *)
(***************************************************************************)
\* the execution is waiting for the provider's stream or reading its chunks
ReadingStream(r) ==
    req[r].op = "executeWorkflow" /\ req[r].pc \in {"awaitStream", "streaming"}

\* what execution r itself does, in the order the claim gives: the provider
\* call is issued in a step that has written in_progress; a terminal status
\* is written only once the stream has ended or raised; while the stream
\* is being read the execution writes nothing to the store
WritesInOrder(r) ==
    /\ (Stepped(r) /\ req'[r].op = "executeWorkflow"
          /\ req'[r].providerCalls > req[r].providerCalls
          /\ req[r].id \in DOMAIN workflows) =>
            workflows'[req[r].id].status = "in_progress"
    /\ (Stepped(r) /\ req[r].op = "executeWorkflow" /\ StatusChanges(req[r].id)
          /\ workflows'[req[r].id].status \in {"completed", "error"}) =>
            req[r].stream \in {"ended", "raised"}
    /\ (Stepped(r) /\ ReadingStream(r)) =>
            /\ storeVars' = storeVars
            /\ req'[r].document = NoDocument

\* C23 (as claimed): the writes of an execution are in that order, and the
\* workflow's status is never completed or error while the execution is
\* still reading chunks.
C23_TerminalStatusNeverWhileReading ==
    [][\A r \in Requests :
        /\ WritesInOrder(r)
        /\ (ReadingStream(r) /\ req[r].stream = "open"
              /\ req[r].id \in DOMAIN workflows) =>
                workflows[req[r].id].status \notin {"completed", "error"}
      ]_vars

\* C23 (amended): the writes of an execution are in that order; the
\* execution itself writes no terminal status and no document while it is
\* reading its stream.
C23_WritesInOrder == [][\A r \in Requests : WritesInOrder(r)]_vars

\* an execution that relayed a chunk after its in_progress write has, after
\* the end of its stream, stored its document and written completed
C23_Witness ==
    \E r \in Requests :
        /\ req[r].op = "executeWorkflow" /\ req[r].pc = "done"
        /\ req[r].stream = "ended"
        /\ req[r].received # <<>>
        /\ req[r].document # NoDocument
        /\ req[r].id \in DOMAIN workflows
        /\ workflows[req[r].id].status = "completed"

(***************************************************************************)
(* Claims about client aborts                                              *)
(***************************************************************************)
\* C24: once the client has aborted the connection of an execution, no
\* further content, done or error event is written to its response.
C24_NoEventAfterAbort ==
    [][\A r \in Requests :
        (req[r].aborted /\ Executing(r)) => req'[r].events = req[r].events
      ]_vars

\* C29: an execution whose client has aborted and whose provider stream
\* then completes still stores its document, with the whole accumulated
\* text (every non-empty chunk received, before and after the abort), and
\* still writes the status completed.
C29_AbortDoesNotCancelPersistence ==
    [][\A r \in Requests :
        (req[r].op = "executeWorkflow" /\ req[r].aborted /\ Stepped(r)
           /\ req[r].id \in DOMAIN workflows) =>
            /\ req[r].pc = "createDocument" =>
                  /\ DOMAIN documents' = DOMAIN documents \cup {nextDocumentId}
                  /\ documents'[nextDocumentId].workflowId = req[r].id
                  /\ documents'[nextDocumentId].content =
                        Concat(NonEmpty(req[r].received))
                  /\ req'[r].pc = "setCompleted"
            /\ req[r].pc = "setCompleted" =>
                  /\ workflows'[req[r].id].status = "completed"
                  /\ req'[r].pc = "done"
      ]_vars

\* the client aborted an execution that went on to receive chunks, store
\* its document and mark the workflow completed
C29_Witness ==
    \E r \in Requests :
        /\ req[r].op = "executeWorkflow" /\ req[r].aborted
        /\ req[r].pc = "done" /\ req[r].stream = "ended"
        /\ req[r].fullContent # <<>>
        /\ req[r].document.id \in DOMAIN documents
        /\ documents[req[r].document.id].content = req[r].fullContent
        /\ workflows[req[r].id].status = "completed"

(***************************************************************************)
(* Claims about the terminal status                                        *)
(***************************************************************************)
\* C25: the step in which a workflow execute handler finishes, having set
\* the status in_progress, leaves the workflow completed or error (the
\* terminal write is that step's own write or an earlier one of the
\* request, nothing else running in between within the step).
C25_FinishedRequestLeavesTerminalStatus ==
    [][\A r \in Requests :
        (/\ req'[r].op = "executeWorkflow"
         /\ req[r].pc \in {"setInProgress", "awaitStream", "streaming",
                           "createDocument", "setCompleted", "catch"}
         /\ req'[r].pc = "done"
         /\ req[r].id \in DOMAIN workflows') =>
            workflows'[req[r].id].status \in {"completed", "error"}
      ]_vars

(***************************************************************************)
(* Claims about overlapping executions of one workflow                     *)
(***************************************************************************)
\* the execution has written in_progress and not yet its terminal status
BetweenStatusWrites(r) ==
    /\ req[r].op = "executeWorkflow"
    /\ req[r].pc \in {"awaitStream", "streaming", "createDocument", "setCompleted",
                      "catch"}

\* C27 (as claimed): the status of a workflow is in_progress whenever some
\* execution of it is between its in_progress write and its terminal write.
C27_InProgressWhileAnyExecutionRuns ==
    \A r \in Requests :
        (BetweenStatusWrites(r) /\ req[r].id \in DOMAIN workflows) =>
            workflows[req[r].id].status = "in_progress"

\* C27 (amended): overlapping executions are not coordinated and the last
\* status write wins: each status write of an execution takes effect
\* whatever the other executions of the workflow are doing (in_progress at
\* the start, completed after the document is stored, error in the catch),
\* and the other steps of an execution leave the workflows alone.
C27_LastStatusWriteWins ==
    [][\A e \in Requests :
        (Stepped(e) /\ req'[e].op = "executeWorkflow"
           /\ req'[e].id \in DOMAIN workflows) =>
            LET w == req'[e].id IN
            /\ \A k \in DOMAIN workflows \ {w} : workflows'[k] = workflows[k]
            /\ CASE req[e].pc = "setInProgress" -> workflows'[w].status = "in_progress"
                 [] req[e].pc = "setCompleted" -> workflows'[w].status = "completed"
                 [] req[e].pc = "catch" -> workflows'[w].status = "error"
                 [] OTHER -> workflows' = workflows
      ]_vars

\* two executions of one workflow overlapped: one has finished and written
\* completed while the other is still reading its stream
C27_Witness ==
    \E r, e \in Requests :
        /\ r # e
        /\ req[r].op = "executeWorkflow" /\ req[e].op = "executeWorkflow"
        /\ req[r].id = req[e].id
        /\ req[r].pc = "streaming"
        /\ req[e].pc = "done" /\ req[e].stream = "ended"
        /\ workflows[req[r].id].status = "completed"

(***************************************************************************)
(* Claims about interleaved updates of one document                        *)
(***************************************************************************)
\* C26: when an updateDocument call overwrites the document row, the
\* content it overwrites is stored in a version row of the document, and
\* the version row the call inserted holds exactly that content (the one
\* live immediately before the update took effect).
C26_NoEditLostFromHistory ==
    [][\A c \in Calls :
        (CallStep(c, "write", "returned") /\ calls'[c].result = "document") =>
            LET d == calls[c].id IN
            /\ \E v \in VersionsOf(d) : v.content = documents[d].content
            /\ \E v \in VersionsOf(d) :
                  v.id = calls[c].savedId /\ v.content = documents[d].content
      ]_vars

(***************************************************************************)
(* Claims about the client's stream parsing                                *)
(***************************************************************************)
\* C28: however the transport cuts the response into reads, the text the
\* client has accumulated when the stream ends is the concatenation of the
\* contents of the content events the server wrote, and the client has seen
\* the document of the done event when there was one.
C28_ClientAccumulatesAllContent ==
    client.pc = "done" =>
        /\ client.fullContent = Concat(ContentsOf(client.sent))
        /\ EventsOfType(client.sent, "done") # {} => client.sawDocument

(***************************************************************************)
(* Claims about the order of the variables                                 *)
(***************************************************************************)
\* the list in the opposite order
Reversed(variables) ==
    [i \in 1..Len(variables) |-> variables[Len(variables) + 1 - i]]

\* the keys of the list are pairwise distinct
DistinctKeys(variables) ==
    \A i, j \in 1..Len(variables) : variables[i].key = variables[j].key => i = j

\* C30: for a variable list with pairwise distinct keys the rendered output
\* does not depend on the order of the variables: a call that returned gave
\* the output the same call gives on the list in the opposite order (text
\* inserted as one variable's value is not replaced by a later variable).
C30_OutputIndependentOfOrder ==
    (render.pc = "returned" /\ DistinctKeys(render.variables)) =>
        render.out = getPromptForAgent(render.agentType, Reversed(render.variables),
                                       render.constitution).value

====
